---- MODULE Spec2Model ----
(***************************************************************************)
(* Fluid property lookup: the merged table written by convert_and_merge.py *)
(* and the FluidLibrary of fluid_lookup/lookup.py that answers queries on  *)
(* it (alias resolution, per-fluid range check, lazily built and cached    *)
(* RegularGridInterpolator per (fluid, property)).                         *)
(*                                                                         *)
(* Numbers: temperatures are kelvin, pressures kilopascal, property values *)
(* integers; an interpolated value is the exact rational <<num, den>> in   *)
(* lowest terms (floating-point rounding is not modelled).  NaN is the     *)
(* marker of a missing float; every comparison with it is false, as in     *)
(* IEEE arithmetic.                                                        *)
(***************************************************************************)
EXTENDS Integers, Sequences, FiniteSets, TLC

VARIABLES
    df,          \* self.df: the loaded table, a sequence of rows
    prop_map,    \* self._prop_map: allowed property -> column
    aliases,     \* self._aliases: lower-cased name -> canonical fluid
    ranges,      \* self._ranges: canonical fluid -> t_min, t_max, p_min, p_max
    side,        \* the installed scipy: which interval holds an inner grid point
    cache,       \* self._cache: <<fluid, prop>> -> interpolator or None
    constructed, \* <<fluid, prop>> -> number of entries built for the key so far
    callers      \* each caller's call in progress: position, arguments, locals,
                 \* result, and (for a call taken as a whole) the keys it found
                 \* in the cache

vars == <<df, prop_map, aliases, ranges, side, cache, constructed, callers>>

(***************************** bounds **************************************)
\* query temperatures are 295 + 5k for k in 0..MaxQT
MaxQT == 5
\* query pressures are 50k for k in 1..MaxQP
MaxQP == 5
\* at most this many cells of the first source's sheet lack a density
MaxHoles == 1

(************************** numbers and names ******************************)
NaN == -1

Abs(x) == IF x < 0 THEN -x ELSE x

RECURSIVE Gcd(_, _)
Gcd(a, b) == IF b = 0 THEN a ELSE Gcd(b, a % b)

\* the float num/den, as a fraction in lowest terms
Frac(num, den) ==
    LET g == Gcd(Abs(num), den)
    IN  [na |-> FALSE, num |-> num \div g, den |-> den \div g]

\* the 'n/a' marker of a result
NA == [na |-> TRUE, num |-> 0, den |-> 1]

Min(S) == CHOOSE x \in S : \A y \in S : x <= y
Max(S) == CHOOSE x \in S : \A y \in S : y <= x

\* np.sort of the distinct values S
RECURSIVE SortedSeq(_)
SortedSeq(S) == IF S = {} THEN <<>> ELSE <<Min(S)>> \o SortedSeq(S \ {Min(S)})

Range(s) == {s[i] : i \in DOMAIN s}

\* a dict with no key
EmptyMap == [k \in {} |-> 0]

ALLOWED_PROPERTIES ==
    {"density", "internal_energy", "enthalpy", "specific_heat_capacity",
     "entropy", "compressibility", "fugacity_coefficient",
     "saturation_pressure", "saturation_temperature", "vapor_density",
     "liquid_density", "viscosity", "thermal_conductivity",
     "surface_tension", "molar_mass", "critical_temperature",
     "critical_pressure", "acentric_factor", "triple_point_temperature",
     "triple_point_pressure"}

SYNONYMS == ("h2o" :> "water") @@ ("water" :> "water")

\* the fluid names of the tables, in Python's string order (sorted())
FluidOrder == <<"Water", "co2", "water">>

\* str.lower() on the names used here
Lower(s) ==
    CASE s = "Water" -> "water"
      [] s = "H2O"   -> "h2o"
      [] s = "CO2"   -> "co2"
      [] OTHER       -> s

\* str.strip() on the names used here
Strip(s) ==
    CASE s = " H2O "   -> "H2O"
      [] s = " Water " -> "Water"
      [] OTHER         -> s

(************************ convert_and_merge.py *****************************)
\* the property columns process_excel_file keeps from the sheets used here
PropColumns == {"density", "viscosity"}

Row(f, t, p, d, v) ==
    [fluid |-> f, t |-> t, p |-> p, vals |-> ("density" :> d) @@ ("viscosity" :> v)]

BaseTs == {300, 310}
BasePs == {100, 200}
Cells  == BaseTs \X BasePs

\* the density and viscosity the first source tabulates at a cell
SheetDensity(t, p)   == 997 - 4 * ((t - 300) \div 10) + (p - 100) \div 100
SheetViscosity(t, p) == 9 - (t - 300) \div 10 + 2 * ((p - 100) \div 100)

CellOrder == <<<<300, 100>>, <<310, 100>>, <<300, 200>>, <<310, 200>>>>

\* coolpropdata.xlsx: one sheet "water" on the 2 x 2 grid; the cells in holes
\* have no density, and only the cells in vcells have a viscosity
CoolpropSheet(holes, vcells) ==
    [i \in 1..Len(CellOrder) |->
        LET c == CellOrder[i]
        IN  Row("water", c[1], c[2],
                IF c \in holes THEN NaN ELSE SheetDensity(c[1], c[2]),
                IF c \in vcells THEN SheetViscosity(c[1], c[2]) ELSE NaN)]

\* a missing file contributes nothing (os.path.exists is false)
CoolpropParts ==
    {<<>>} \cup
    {CoolpropSheet(h, v) :
        h \in {x \in SUBSET Cells : Cardinality(x) <= MaxHoles},
        v \in {Cells, {c \in Cells : c[2] = 100}}}

\* pykingasdata.xlsx: missing, or one row: of water at a sampled or at a new
\* temperature, of a sheet named "Water", or of water without a temperature
PykingasRows ==
    {Row("water", t, 100, pv[1], pv[2]) :
        t \in {300, 315}, pv \in {<<NaN, NaN>>, <<990, NaN>>, <<NaN, 5>>}}
    \cup {Row("Water", 300, 100, 990, NaN), Row("water", NaN, 100, 990, NaN)}

PykingasParts == {<<>>} \cup {<<r>> : r \in PykingasRows}

\* thermopackdata.xlsx: missing, or one row of a second fluid
ThermopackParts == {<<>>, <<Row("co2", 300, 100, 990, NaN)>>}

\* pd.concat(parts) then dropna(subset=['t', 'p'])
HasTP(r) == r.t # NaN /\ r.p # NaN
Master(parts) ==
    LET RECURSIVE Concat(_)
        Concat(ps) == IF ps = <<>> THEN <<>> ELSE Head(ps) \o Concat(Tail(ps))
    IN  SelectSeq(Concat(parts), HasTP)

(***************************** __init__ ************************************)
\* c == prop or c.startswith(prop + '_'); no column of the merged table
\* carries a unit suffix, so only equality matches
ColumnMatches(c, prop) == c = prop

BuildPropMap(columns) ==
    [prop \in {q \in ALLOWED_PROPERTIES : \E c \in columns : ColumnMatches(c, q)} |->
        CHOOSE c \in columns : ColumnMatches(c, prop)]

TableFluids(table) == {table[i].fluid : i \in DOMAIN table}

\* {f.lower(): f for f in sorted(fluids)}, then the SYNONYMS on top
BuildAliases(table) ==
    LET fluids == SelectSeq(FluidOrder, LAMBDA f : f \in TableFluids(table))
        keys   == {Lower(f) : f \in Range(fluids)}
        own    == [k \in keys |->
                     fluids[Max({i \in DOMAIN fluids : Lower(fluids[i]) = k})]]
    IN  [a \in {Lower(x) : x \in DOMAIN SYNONYMS} |->
            SYNONYMS[CHOOSE x \in DOMAIN SYNONYMS : Lower(x) = a]] @@ own

\* sorted(set(self._aliases.values()))
AvailableFluidsOf(al) ==
    SelectSeq(FluidOrder, LAMBDA f : \E k \in DOMAIN al : al[k] = f)

\* Series.min()/max() skip NaN and give NaN on an empty selection
ColMin(S) == IF S \ {NaN} = {} THEN NaN ELSE Min(S \ {NaN})
ColMax(S) == IF S \ {NaN} = {} THEN NaN ELSE Max(S \ {NaN})

BuildRanges(table, al) ==
    [f \in Range(AvailableFluidsOf(al)) |->
        LET sub == {i \in DOMAIN table : table[i].fluid = f}
        IN  [t_min |-> ColMin({table[i].t : i \in sub}),
             t_max |-> ColMax({table[i].t : i \in sub}),
             p_min |-> ColMin({table[i].p : i \in sub}),
             p_max |-> ColMax({table[i].p : i \in sub})]]

(*************************** _build_interp **********************************)
None == [kind |-> "None", Ts |-> <<>>, Ps |-> <<>>, values |-> <<>>]

\* self.df[self.df['fluid'] == fluid].dropna(subset=['t', 'p', col])
Group(fluid, col) ==
    SelectSeq(df, LAMBDA r : r.fluid = fluid /\ r.t # NaN /\ r.p # NaN
                             /\ r.vals[col] # NaN)

\* set_index(['t', 'p']).unstack('p') raises ValueError when two rows of the
\* group share their (t, p)
DuplicateIndex(grp) ==
    \E i, j \in DOMAIN grp : i < j /\ grp[i].t = grp[j].t /\ grp[i].p = grp[j].p

\* unstack('p').reindex(index=Ts, columns=Ps): the value of the row at
\* (Ts[i], Ps[j]), NaN where the group has no such row
Pivot(grp, col, Ts, Ps) ==
    [i \in DOMAIN Ts |-> [j \in DOMAIN Ps |->
        LET at == {k \in DOMAIN grp : grp[k].t = Ts[i] /\ grp[k].p = Ps[j]}
        IN  IF at = {} THEN NaN ELSE grp[CHOOSE k \in at : TRUE].vals[col]]]

\* RegularGridInterpolator((Ts, Ps), pivot.values, bounds_error=False,
\* fill_value=np.nan)
MakeInterp(grp, col, Ts, Ps) ==
    [kind |-> "interp", Ts |-> Ts, Ps |-> Ps, values |-> Pivot(grp, col, Ts, Ps)]

\* Store with None cached whatever was built
StoreNone(c, n, key, entry) ==
    [raised |-> FALSE, fn |-> entry,
     cache |-> (key :> None) @@ c,
     constructed |-> (key :> (IF key \in DOMAIN n THEN n[key] + 1 ELSE 1)) @@ n]

\* self._cache[key] = entry
Store(c, n, key, entry) ==
    [raised |-> FALSE, fn |-> entry,
     cache |-> (key :> entry) @@ c,
     constructed |-> (key :> (IF key \in DOMAIN n THEN n[key] + 1 ELSE 1)) @@ n]

\* what the part of _build_interp after the cache lookup computes from the
\* table: the entry to store, or the exception of the pivot
Construct(fluid, prop) ==
    IF prop \notin DOMAIN prop_map
    THEN [raised |-> FALSE, entry |-> None]
    ELSE LET col == prop_map[prop]
             grp == Group(fluid, col)
             Ts  == SortedSeq({grp[k].t : k \in DOMAIN grp})
             Ps  == SortedSeq({grp[k].p : k \in DOMAIN grp})
         IN  IF Len(Ts) < 2 \/ Len(Ps) < 2
             THEN [raised |-> FALSE, entry |-> None]
             ELSE IF DuplicateIndex(grp)
             THEN [raised |-> TRUE, entry |-> None]
             ELSE [raised |-> FALSE, entry |-> MakeInterp(grp, col, Ts, Ps)]

\* BuildInterp without the lookup of the key in the cache
BuildInterpNoLookup(c, n, fluid, prop) ==
    LET b == Construct(fluid, prop)
    IN  IF b.raised
        THEN [raised |-> TRUE, fn |-> None, cache |-> c, constructed |-> n]
        ELSE Store(c, n, <<fluid, prop>>, b.entry)

\* _build_interp(fluid, prop) run to its end on cache c: the entry returned
\* and the cache afterwards, or raised with the cache unchanged
BuildInterp(c, n, fluid, prop) ==
    LET key == <<fluid, prop>>
    IN  IF key \in DOMAIN c
        THEN [raised |-> FALSE, fn |-> c[key], cache |-> c, constructed |-> n]
        ELSE LET b == Construct(fluid, prop)
             IN  IF b.raised
                 THEN [raised |-> TRUE, fn |-> None, cache |-> c, constructed |-> n]
                 ELSE Store(c, n, key, b.entry)

(********************* RegularGridInterpolator.__call__ *********************)
\* the interval of the grid used for x, grid[1] <= x <= grid[-1].  Releases
\* of scipy differ at an inner grid point: searchsorted(grid, x) - 1 clipped
\* to the intervals takes the one that ends at x ("left"), the later
\* find_interval_ascending the one that starts at x ("right")
FindInterval(grid, x) ==
    IF side = "left"
    THEN Max({1} \cup {i \in 1..(Len(grid) - 1) : grid[i] < x})
    ELSE Max({i \in 1..(Len(grid) - 1) : grid[i] <= x})

\* linear interpolation over the four corners of the cell; every corner
\* enters the sum, so a NaN corner makes the sum NaN whatever its weight
Evaluate(fn, T, P) ==
    LET Ts == fn.Ts
        Ps == fn.Ps
    IN  IF T < Ts[1] \/ T > Ts[Len(Ts)] \/ P < Ps[1] \/ P > Ps[Len(Ps)]
        THEN NA
        ELSE LET i   == FindInterval(Ts, T)
                 j   == FindInterval(Ps, P)
                 v00 == fn.values[i][j]
                 v01 == fn.values[i][j + 1]
                 v10 == fn.values[i + 1][j]
                 v11 == fn.values[i + 1][j + 1]
                 a   == T - Ts[i]
                 b   == P - Ps[j]
                 dT  == Ts[i + 1] - Ts[i]
                 dP  == Ps[j + 1] - Ps[j]
             IN  IF NaN \in {v00, v01, v10, v11}
                 THEN NA
                 ELSE Frac(v00 * (dT - a) * (dP - b) + v01 * (dT - a) * b
                           + v10 * a * (dP - b) + v11 * a * b,
                           dT * dP)

(******************************* query *************************************)
\* _canonical_fluid: the key looked up in self._aliases
AliasKey(fluid) == Lower(Strip(fluid))

\* Outside without the comparison with the upper bound
OutsideLowerOnly(lo, hi, x) == ~ (lo # NaN /\ lo <= x)

\* not (lo <= x <= hi); false comparisons with NaN make it true
Outside(lo, hi, x) == ~ (lo # NaN /\ hi # NaN /\ lo <= x /\ x <= hi)

Raised(c, n, kind) ==
    [cache |-> c, constructed |-> n, hits |-> {},
     result |-> [kind |-> kind, out |-> EmptyMap]]

\* out[prop]: 'n/a' for no interpolator and for a NaN value
OutValue(fn, T, P) == IF fn = None THEN NA ELSE Evaluate(fn, T, P)

\* the for loop of query over the properties still to do
RECURSIVE QueryLoop(_, _, _, _, _, _, _, _)
QueryLoop(canon, T, P, todo, c, n, out, hits) ==
    IF todo = <<>>
    THEN [cache |-> c, constructed |-> n, hits |-> hits,
          result |-> [kind |-> "ok", out |-> out]]
    ELSE LET prop == Head(todo)
             b    == BuildInterp(c, n, canon, prop)
         IN  IF b.raised
             THEN [Raised(c, n, "DuplicateIndex") EXCEPT !.hits = hits]
             ELSE QueryLoop(canon, T, P, Tail(todo), b.cache, b.constructed,
                            (prop :> OutValue(b.fn, T, P)) @@ out,
                            IF <<canon, prop>> \in DOMAIN c
                            THEN hits \cup {<<canon, prop>>} ELSE hits)

\* the orders in which list(self._prop_map.keys()) can list the keys: the
\* dict is filled in the iteration order of the set ALLOWED_PROPERTIES
KeyOrders ==
    LET K == DOMAIN prop_map
    IN  {s \in [1..Cardinality(K) -> K] : \A i, j \in DOMAIN s : i # j => s[i] # s[j]}

\* PropsToQuery without the default for props = None
PropsToQueryNoDefault(props, order) ==
    SelectSeq(props.list, LAMBDA p : p \in DOMAIN prop_map)

\* props = list(self._prop_map.keys()) if props is None, then filtered
PropsToQuery(props, order) ==
    SelectSeq(IF props.given THEN props.list ELSE order,
              LAMBDA p : p \in DOMAIN prop_map)

\* query(fluid, T, P, props) run to its end on cache c
QueryCall(c, n, fluid, T, P, props, order) ==
    IF AliasKey(fluid) \notin DOMAIN aliases
    THEN Raised(c, n, "KeyError")
    ELSE LET canon == aliases[AliasKey(fluid)]
             r     == ranges[canon]
         IN  IF Outside(r.t_min, r.t_max, T) \/ Outside(r.p_min, r.p_max, P)
             THEN Raised(c, n, "OutOfRange")
             ELSE QueryLoop(canon, T, P, PropsToQuery(props, order), c, n, EmptyMap, {})

(************************* states and operations ***************************)
QueryTs == {295 + 5 * k : k \in 0..MaxQT}
QueryPs == {50 * k : k \in 1..MaxQP}
FluidArgs == {" H2O ", "co2", "neon"}
NoProps == [given |-> FALSE, list |-> <<>>]
Props(l) == [given |-> TRUE, list |-> l]
PropArgs == {NoProps, Props(<<"density">>),
             Props(<<"viscosity", "entropy", "bogus", "density">>)}

\* the callers; the first one alone makes the calls of the sequential runs
Callers == {"first", "second"}
Main == "first"

NoResult == [kind |-> "none", out |-> EmptyMap]

Idle ==
    [pc |-> "idle", op |-> "", fluid |-> "", T |-> 0, P |-> 0, props |-> NoProps,
     canon |-> "", todo |-> <<>>, entry |-> None, result |-> NoResult, list |-> <<>>,
     hits |-> {}]

\* the tables main() can write: the parts of the files that exist, in the
\* order of inputs; with no part pd.concat raises and no table is written
Tables ==
    {Master(<<cp, pk, tp>>) :
        cp \in CoolpropParts, pk \in PykingasParts, tp \in ThermopackParts} \ {<<>>}

\* the releases of scipy differ only on an axis of three or more values:
\* for a table whose grids all have two values per axis, one release
\* stands for both
Sides(table) ==
    IF \E f \in TableFluids(table), col \in PropColumns :
          LET rows == {i \in DOMAIN table : table[i].fluid = f /\ table[i].vals[col] # NaN}
          IN  \/ Cardinality({table[i].t : i \in rows}) > 2
              \/ Cardinality({table[i].p : i \in rows}) > 2
    THEN {"left", "right"}
    ELSE {"right"}

Init ==
    /\ df \in Tables
    /\ prop_map = BuildPropMap(PropColumns \cup {"t", "p", "fluid"})
    /\ aliases = BuildAliases(df)
    /\ ranges = BuildRanges(df, aliases)
    /\ side \in Sides(df)
    /\ cache = EmptyMap
    /\ constructed = EmptyMap
    /\ callers = [c \in Callers |-> Idle]

\* the orders list(self._prop_map.keys()) can have when props is None
OrdersFor(props) == IF props.given THEN {<<>>} ELSE KeyOrders

\* one whole call of query by caller c
Query(c, fluid, T, P, props, order) ==
    LET q == QueryCall(cache, constructed, fluid, T, P, props, order)
    IN  /\ callers[c].pc = "idle"
        /\ cache' = q.cache
        /\ constructed' = q.constructed
        /\ callers' = [callers EXCEPT ![c] =
               [Idle EXCEPT !.pc = "done", !.op = "query", !.fluid = fluid,
                            !.T = T, !.P = P, !.props = props,
                            !.result = q.result, !.hits = q.hits]]
        /\ UNCHANGED <<df, prop_map, aliases, ranges, side>>

AvailableFluids(c) ==
    /\ callers[c].pc = "idle"
    /\ callers' = [callers EXCEPT ![c] =
           [Idle EXCEPT !.pc = "done", !.op = "available_fluids",
                        !.result = [kind |-> "ok", out |-> EmptyMap],
                        !.list = AvailableFluidsOf(aliases)]]
    /\ UNCHANGED <<df, prop_map, aliases, ranges, side, cache, constructed>>

\* sorted(self._prop_map.keys())
SortedProps == SelectSeq(<<"density", "viscosity">>, LAMBDA p : p \in DOMAIN prop_map)

AvailableProperties(c, fluid) ==
    LET known == AliasKey(fluid) \in DOMAIN aliases
    IN  /\ callers[c].pc = "idle"
        /\ callers' = [callers EXCEPT ![c] =
               [Idle EXCEPT !.pc = "done", !.op = "available_properties",
                            !.fluid = fluid,
                            !.result = [kind |-> IF known THEN "ok" ELSE "KeyError",
                                        out |-> EmptyMap],
                            !.list = IF known THEN SortedProps ELSE <<>>]]
        /\ UNCHANGED <<df, prop_map, aliases, ranges, side, cache, constructed>>

\* the caller has its result (or exception) and is free to call again
Return(c) ==
    /\ callers[c].pc = "done"
    /\ callers' = [callers EXCEPT ![c] = Idle]
    /\ UNCHANGED <<df, prop_map, aliases, ranges, side, cache, constructed>>

Next ==
    \/ /\ callers[Main].pc = "idle"
       /\ \E f \in FluidArgs, T \in QueryTs, P \in QueryPs, ps \in PropArgs :
             \E o \in OrdersFor(ps) : Query(Main, f, T, P, ps, o)
    \/ AvailableFluids(Main)
    \/ \E f \in FluidArgs : AvailableProperties(Main, f)
    \/ Return(Main)

Spec == Init /\ [][Next]_vars

(********************** concurrent callers of query ************************)
\* query in the steps at which a caller touches self._cache: the lookup of
\* _build_interp and its store.  What lies between them reads only the
\* caller's locals and the table, which nothing writes after __init__.
ConcFluidArgs == {" H2O "}
ConcTs == {305}
ConcPs == {150}
ConcPropArgs == {NoProps, Props(<<"density">>)}

\* query up to the for loop: _canonical_fluid, the range check, the props
Begin(c, fluid, T, P, props, order) ==
    LET call  == [Idle EXCEPT !.op = "query", !.fluid = fluid, !.T = T, !.P = P,
                              !.props = props]
        known == AliasKey(fluid) \in DOMAIN aliases
        canon == aliases[AliasKey(fluid)]
        r     == ranges[canon]
    IN  /\ callers[c].pc = "idle"
        /\ callers' = [callers EXCEPT ![c] =
               IF ~ known
               THEN [call EXCEPT !.pc = "done", !.result = [kind |-> "KeyError", out |-> EmptyMap]]
               ELSE IF Outside(r.t_min, r.t_max, T) \/ Outside(r.p_min, r.p_max, P)
               THEN [call EXCEPT !.pc = "done", !.result = [kind |-> "OutOfRange", out |-> EmptyMap]]
               ELSE [call EXCEPT !.pc = "lookup", !.canon = canon,
                                 !.todo = PropsToQuery(props, order)]]
        /\ UNCHANGED <<df, prop_map, aliases, ranges, side, cache, constructed>>

\* Lookup that on a miss reserves the key with None before it constructs
LookupReserve(c) ==
    LET me   == callers[c]
        prop == Head(me.todo)
        key  == <<me.canon, prop>>
        b    == Construct(me.canon, prop)
        miss == me.todo # <<>> /\ key \notin DOMAIN cache /\ ~ b.raised
    IN  /\ me.pc = "lookup"
        /\ callers' = [callers EXCEPT ![c] =
               IF me.todo = <<>>
               THEN [me EXCEPT !.pc = "done", !.result.kind = "ok"]
               ELSE IF key \in DOMAIN cache
               THEN [me EXCEPT !.todo = Tail(me.todo),
                               !.result.out = (prop :> OutValue(cache[key], me.T, me.P)) @@ @]
               ELSE IF b.raised
               THEN [me EXCEPT !.pc = "done", !.todo = <<>>,
                               !.result = [kind |-> "DuplicateIndex", out |-> EmptyMap]]
               ELSE [me EXCEPT !.pc = "store", !.entry = b.entry]]
        /\ cache' = IF miss THEN (key :> None) @@ cache ELSE cache
        /\ UNCHANGED <<df, prop_map, aliases, ranges, side, constructed>>

\* the head of the loop: return when no property is left; else the cache
\* lookup of _build_interp, and on a miss the construction up to the store
Lookup(c) ==
    LET me   == callers[c]
        prop == Head(me.todo)
        key  == <<me.canon, prop>>
        b    == Construct(me.canon, prop)
    IN  /\ me.pc = "lookup"
        /\ callers' = [callers EXCEPT ![c] =
               IF me.todo = <<>>
               THEN [me EXCEPT !.pc = "done", !.result.kind = "ok"]
               ELSE IF key \in DOMAIN cache
               THEN [me EXCEPT !.todo = Tail(me.todo),
                               !.result.out = (prop :> OutValue(cache[key], me.T, me.P)) @@ @]
               ELSE IF b.raised
               THEN [me EXCEPT !.pc = "done", !.todo = <<>>,
                               !.result = [kind |-> "DuplicateIndex", out |-> EmptyMap]]
               ELSE [me EXCEPT !.pc = "store", !.entry = b.entry]]
        /\ UNCHANGED <<df, prop_map, aliases, ranges, side, cache, constructed>>

\* self._cache[key] = entry, then the evaluation of the entry just built
StoreEntry(c) ==
    LET me   == callers[c]
        prop == Head(me.todo)
        st   == Store(cache, constructed, <<me.canon, prop>>, me.entry)
    IN  /\ me.pc = "store"
        /\ cache' = st.cache
        /\ constructed' = st.constructed
        /\ callers' = [callers EXCEPT ![c] =
               [me EXCEPT !.pc = "lookup", !.todo = Tail(me.todo), !.entry = None,
                          !.result.out = (prop :> OutValue(me.entry, me.T, me.P)) @@ @]]
        /\ UNCHANGED <<df, prop_map, aliases, ranges, side>>

NextConc ==
    \E c \in Callers :
        \/ /\ callers[c].pc = "idle"
           /\ \E f \in ConcFluidArgs, T \in ConcTs, P \in ConcPs, ps \in ConcPropArgs :
                 \E o \in OrdersFor(ps) : Begin(c, f, T, P, ps, o)
        \/ Lookup(c)
        \/ StoreEntry(c)
        \/ Return(c)

ConcSpec == Init /\ [][NextConc]_vars

(************************** what the claims speak of ***********************)
\* a caller that holds the outcome of a call of query
Answered(c) == callers[c].pc = "done" /\ callers[c].op = "query"

Known(fluid) == AliasKey(fluid) \in DOMAIN aliases
Canon(fluid) == aliases[AliasKey(fluid)]

\* the T and P values observed for fluid f across all rows of the table
ObservedTs(f) == {df[i].t : i \in {k \in DOMAIN df : df[k].fluid = f}}
ObservedPs(f) == {df[i].p : i \in {k \in DOMAIN df : df[k].fluid = f}}
Within(S, x) == \E lo, hi \in S : lo <= x /\ x <= hi

\* the properties a call asks for that have a column in the table
Requested(props) ==
    (IF props.given THEN Range(props.list) ELSE ALLOWED_PROPERTIES) \cap PropColumns

\* the rows that report property p for fluid f, and the grid they span
Reports(f, p) == {i \in DOMAIN df : df[i].fluid = f /\ df[i].vals[p] # NaN}
GridTs(f, p) == {df[i].t : i \in Reports(f, p)}
GridPs(f, p) == {df[i].p : i \in Reports(f, p)}
ValidGrid(f, p) == Cardinality(GridTs(f, p)) >= 2 /\ Cardinality(GridPs(f, p)) >= 2
At(f, p, t, q) == {i \in Reports(f, p) : df[i].t = t /\ df[i].p = q}

\* the priority-resolved value at a cell: main() writes the sources in
\* priority order, so it is the value of the first row at the cell
Resolved(f, p, t, q) == df[Min(At(f, p, t, q))].vals[p]

\* the lower corner of the grid interval that holds x
Below(S, x) == Max({g \in S : g <= x /\ g < Max(S)})
Above(S, x) == Min({g \in S : g > Below(S, x)})

\* the ends of the grid intervals that hold x (two intervals when x is an
\* inner grid value)
Ends(S, x) ==
    {g \in S : \E h \in S :
        /\ g # h
        /\ ~ \E m \in S : (g < m /\ m < h) \/ (h < m /\ m < g)
        /\ (g <= x /\ x <= h) \/ (h <= x /\ x <= g)}

\* (T, P) lies in the grid of (f, p) and the corners of the cells around it
\* are all sampled
Surrounded(f, p, T, P) ==
    /\ ValidGrid(f, p)
    /\ Within(GridTs(f, p), T) /\ Within(GridPs(f, p), P)
    /\ \A t \in Ends(GridTs(f, p), T), q \in Ends(GridPs(f, p), P) : At(f, p, t, q) # {}

\* linear along T on both pressure lines, then linear along P
Bilinear(f, p, T, P) ==
    LET t0 == Below(GridTs(f, p), T)
        t1 == Above(GridTs(f, p), T)
        q0 == Below(GridPs(f, p), P)
        q1 == Above(GridPs(f, p), P)
        lo == Resolved(f, p, t0, q0) * (t1 - T) + Resolved(f, p, t1, q0) * (T - t0)
        hi == Resolved(f, p, t0, q1) * (t1 - T) + Resolved(f, p, t1, q1) * (T - t0)
    IN  Frac(lo * (q1 - P) + hi * (P - q0), (t1 - t0) * (q1 - q0))

(********************************* C1 **************************************)
\* C1: a query of a known fluid with T outside the span of the T values, or P
\* outside the span of the P values, observed for that fluid over all rows
\* raises the out-of-range error, whatever properties it asks for and
\* whatever the cache holds.
C1_OutOfRange ==
    \A c \in Callers :
        LET me == callers[c]
        IN  (/\ Answered(c)
             /\ Known(me.fluid)
             /\ \/ ~ Within(ObservedTs(Canon(me.fluid)), me.T)
                \/ ~ Within(ObservedPs(Canon(me.fluid)), me.P))
            => me.result.kind = "OutOfRange"

\* a query at 315 K, above the density grid of water, raised for its pressure
\* although the range check passed its temperature, with entries cached
C1_Witness ==
    /\ Answered(Main)
    /\ callers[Main].result.kind = "OutOfRange"
    /\ callers[Main].T = 315 /\ Within(ObservedTs("water"), 315)
    /\ Canon(callers[Main].fluid) = "water"
    /\ callers[Main].props.given
    /\ <<"water", "density">> \in DOMAIN cache

(********************************* C2 **************************************)
\* C2: a query in the fluid's range, on a property whose grid has 2 distinct
\* T and P values and whose four corners around the point are sampled,
\* returns the bilinear interpolation of the four corner values.
C2_Bilinear ==
    \A c \in Callers :
        LET me == callers[c]
        IN  (/\ Answered(c)
             /\ Known(me.fluid)
             /\ Within(ObservedTs(Canon(me.fluid)), me.T)
             /\ Within(ObservedPs(Canon(me.fluid)), me.P))
            => \A p \in Requested(me.props) :
                   Surrounded(Canon(me.fluid), p, me.T, me.P)
                   => /\ me.result.kind = "ok"
                      /\ p \in DOMAIN me.result.out
                      /\ me.result.out[p] = Bilinear(Canon(me.fluid), p, me.T, me.P)

(********************************* C3 **************************************)
\* C3: a query at a sampled point of a property with a valid grid returns the
\* priority-resolved value stored at that point, never 'n/a', also when
\* neighbouring cells are absent.
C3_SamplePoint ==
    \A c \in Callers :
        LET me == callers[c]
        IN  (Answered(c) /\ Known(me.fluid))
            => \A p \in Requested(me.props) :
                   (/\ ValidGrid(Canon(me.fluid), p)
                    /\ At(Canon(me.fluid), p, me.T, me.P) # {})
                   => /\ me.result.kind = "ok"
                      /\ p \in DOMAIN me.result.out
                      /\ me.result.out[p]
                           = Frac(Resolved(Canon(me.fluid), p, me.T, me.P), 1)

(********************************* C4 **************************************)
\* C4: when two rows report different values of a property at the same
\* (fluid, T, P), the grid built for the pair by a query on it holds, at that
\* cell, the value of the higher-priority (earlier) row.
C4_Priority ==
    \A c \in Callers :
        LET me == callers[c]
        IN  (/\ Answered(c)
             /\ Known(me.fluid)
             /\ Within(ObservedTs(Canon(me.fluid)), me.T)
             /\ Within(ObservedPs(Canon(me.fluid)), me.P))
            => \A p \in Requested(me.props) :
                 LET f   == Canon(me.fluid)
                     key == <<f, p>>
                 IN  \A i, j \in Reports(f, p) :
                        (/\ ValidGrid(f, p)
                         /\ i < j /\ df[i].t = df[j].t /\ df[i].p = df[j].p
                         /\ df[i].vals[p] # df[j].vals[p])
                        => /\ key \in DOMAIN cache
                           /\ cache[key].kind = "interp"
                           /\ \E a \in DOMAIN cache[key].Ts, b \in DOMAIN cache[key].Ps :
                                 /\ cache[key].Ts[a] = df[i].t
                                 /\ cache[key].Ps[b] = df[i].p
                                 /\ cache[key].values[a][b] = df[i].vals[p]

(********************************* C5 **************************************)
\* C5: a query of a known fluid at a point in its range never raises: it
\* returns a mapping with an entry, a value or 'n/a', for every requested
\* property that has a column, whatever the coverage of the data.
C5_NoPartialFailure ==
    \A c \in Callers :
        LET me == callers[c]
        IN  (/\ Answered(c)
             /\ Known(me.fluid)
             /\ Within(ObservedTs(Canon(me.fluid)), me.T)
             /\ Within(ObservedPs(Canon(me.fluid)), me.P))
            => /\ me.result.kind = "ok"
               /\ DOMAIN me.result.out = Requested(me.props)

(********************************* C6 **************************************)
\* C6: the outcome of a query is the outcome the same arguments have on the
\* cache as it now stands (the call repeated) and on an empty cache (the
\* call that builds every entry): identical calls give identical results,
\* whether they build or reuse.
C6_Idempotent ==
    \A c \in Callers :
        LET me == callers[c]
        IN  Answered(c)
            => \A o \in OrdersFor(me.props) :
                  /\ QueryCall(cache, constructed, me.fluid, me.T, me.P, me.props, o).result
                       = me.result
                  /\ QueryCall(EmptyMap, EmptyMap, me.fluid, me.T, me.P, me.props, o).result
                       = me.result

\* a query returned an interpolated density and an 'n/a' from entries that
\* earlier calls had built
C6_Witness ==
    /\ Answered(Main)
    /\ callers[Main].hits = {<<"water", "density">>, <<"water", "viscosity">>}
    /\ callers[Main].result.kind = "ok"
    /\ DOMAIN callers[Main].result.out = {"density", "viscosity"}
    /\ callers[Main].result.out["density"] = [na |-> FALSE, num |-> 1991, den |-> 2]
    /\ callers[Main].result.out["viscosity"] = NA
    /\ {<<"water", "density">>, <<"water", "viscosity">>} \subseteq DOMAIN cache

(********************************* C7 **************************************)
\* C7: over any sequence of queries every key is built at most once, and an
\* entry in the cache, interpolator or None, is never replaced or evicted.
C7_BuiltOnce ==
    [][/\ \A k \in DOMAIN cache' : constructed'[k] = 1
       /\ \A k \in DOMAIN cache : k \in DOMAIN cache' /\ cache'[k] = cache[k]]_vars

\* a later query was answered from a cached interpolator and a cached None
C7_Witness ==
    /\ Answered(Main)
    /\ callers[Main].result.kind = "ok"
    /\ \E k1, k2 \in callers[Main].hits :
          cache[k1] = None /\ cache[k2].kind = "interp"

(********************************* C8 **************************************)
\* C8: with concurrent callers every entry of the cache is the one a
\* sequential build produces, and every caller receives the result a
\* sequential caller would.
C8_Converges ==
    /\ \A k \in DOMAIN cache :
          /\ ~ Construct(k[1], k[2]).raised
          /\ cache[k] = Construct(k[1], k[2]).entry
    /\ \A c \in Callers :
          LET me == callers[c]
          IN  Answered(c)
              => \A o \in OrdersFor(me.props) :
                    QueryCall(EmptyMap, EmptyMap, me.fluid, me.T, me.P, me.props, o).result
                      = me.result

\* both callers built the interpolator of the same key and hold the same value
C8_Witness ==
    /\ \E k \in DOMAIN constructed : constructed[k] = 2 /\ cache[k].kind = "interp"
    /\ \A c \in Callers : Answered(c) /\ callers[c].result.kind = "ok"
    /\ \A c, d \in Callers :
          callers[c].props = callers[d].props /\ callers[c].result = callers[d].result
    /\ \E p \in DOMAIN callers[Main].result.out : ~ callers[Main].result.out[p].na

(********************************* C9 **************************************)
\* C9: the canonical names, the members of available_fluids() and the values
\* a name can resolve to, are exactly the distinct fluid values of the table.
C9_CanonicalNames ==
    \A c \in Callers :
        LET me == callers[c]
        IN  /\ (me.pc = "done" /\ me.op = "available_fluids")
               => Range(me.list) = TableFluids(df)
            /\ (Answered(c) /\ Known(me.fluid)) => Canon(me.fluid) \in TableFluids(df)

(********************************* C10 *************************************)
\* C10 as claimed: with props omitted the keys of the result are exactly the
\* properties whose pair with the fluid has a valid grid.
C10_KeysHaveGrid ==
    \A c \in Callers :
        LET me == callers[c]
        IN  (Answered(c) /\ ~ me.props.given /\ me.result.kind = "ok")
            => DOMAIN me.result.out
                 = {p \in ALLOWED_PROPERTIES \cap PropColumns :
                        ValidGrid(Canon(me.fluid), p)}

\* C10 as amended: with props omitted the keys of a returned mapping are
\* exactly the allowed properties that have a column in the table, and those
\* without a valid grid for the fluid map to 'n/a'.
C10_KeysHaveColumn ==
    \A c \in Callers :
        LET me == callers[c]
        IN  (Answered(c) /\ ~ me.props.given /\ me.result.kind = "ok")
            => /\ DOMAIN me.result.out = ALLOWED_PROPERTIES \cap PropColumns
               /\ \A p \in DOMAIN me.result.out :
                     ~ ValidGrid(Canon(me.fluid), p) => me.result.out[p] = NA

\* props omitted: density interpolated, viscosity (one pressure only) 'n/a'
C10_Witness ==
    /\ Answered(Main)
    /\ ~ callers[Main].props.given
    /\ callers[Main].result.kind = "ok"
    /\ ~ ValidGrid("water", "viscosity")
    /\ DOMAIN callers[Main].result.out = {"density", "viscosity"}
    /\ ~ callers[Main].result.out["density"].na
    /\ callers[Main].result.out["viscosity"].na

====
